---- MODULE Spec2Model ----
(***************************************************************************)
(* Batch transcription pipeline of the Call Recording Transcriber          *)
(* (src/app.py): the "Process Recordings" handler, its per-row loop, the   *)
(* response parser format_transcript_gemini and the sample lookup.         *)
(*                                                                         *)
(* Python values that come from outside the program (JSON response bodies, *)
(* spreadsheet cells) are tagged records: [str |-> s], [num |-> n],        *)
(* [null |-> TRUE], [list |-> <<...>>], [dict |-> record].  Python strings *)
(* are TLA+ strings; Len, \o and SubSeq act on them character by character.*)
(* Row positions are 0-based as in the code (df row idx is df.rows[idx+1]).*)
(* The status icons the code puts in front of "Failed", "No data" and      *)
(* "Success" are left out of the status strings.                           *)
(***************************************************************************)
EXTENDS Integers, Sequences, FiniteSets, TLC

VARIABLES
    api_key,          \* sidebar text input: "" when no key was entered
    uploaded_file,    \* the uploaded spreadsheet: NoFile, Unreadable or a sheet
    pc,               \* position of the handler
    df,               \* the data frame read from uploaded_file
    idx,              \* loop variable of "for idx, row in df.iterrows()"
    mobile,           \* reference label of the row in flight
    results_data,     \* the report, one entry appended per row
    progress_bar,     \* values passed to progress_bar.progress, as <<current, total>>
    status_container, \* kind of the last message put in status_container
    st_errors,        \* messages passed to st.error by the handler
    sample_idx,       \* result of the sample lookup, -1 for None
    http_log,         \* network calls issued, as <<"get" | "post", idx>>
    writes,           \* values assigned to df.at[idx, "transcript"], per row, in order
    mime_type,        \* media type put in the payload last built, "" before the first
    env               \* what the network did for each row (fetch and remote call)

vars == <<api_key, uploaded_file, pc, df, idx, mobile, results_data, progress_bar,
          status_container, st_errors, sample_idx, http_log, writes, mime_type,
          env>>

----------------------------------------------------------------------------
(* Bounds of the model *)

MaxRows == 2

----------------------------------------------------------------------------
(* Python values *)

JNull == [null |-> TRUE]
JStr(s) == [str |-> s]
JNum(n) == [num |-> n]
JList(l) == [list |-> l]
JDict(d) == [dict |-> d]
EmptyDict == <<>>
NotJson == [notjson |-> TRUE]

IsNull(v) == DOMAIN v = {"null"}
IsStr(v) == DOMAIN v = {"str"}
IsNum(v) == DOMAIN v = {"num"}
IsList(v) == DOMAIN v = {"list"}
IsDict(v) == DOMAIN v = {"dict"}

TypeName(v) ==
    CASE IsNull(v) -> "NoneType"
      [] IsStr(v) -> "str"
      [] IsNum(v) -> "int"
      [] IsList(v) -> "list"
      [] IsDict(v) -> "dict"

\* bool(v)
Truthy(v) ==
    CASE IsNull(v) -> FALSE
      [] IsStr(v) -> v.str # ""
      [] IsNum(v) -> v.num # 0
      [] IsList(v) -> Len(v.list) > 0
      [] IsDict(v) -> DOMAIN v.dict # {}

Digit(d) == SubSeq("0123456789", d + 1, d + 1)

RECURSIVE ToStr(_)
\* str(n) for n >= 0
ToStr(n) == IF n < 10 THEN Digit(n) ELSE ToStr(n \div 10) \o Digit(n % 10)

\* str(v) / f"{v}" for the scalar values
PyStr(v) ==
    CASE IsStr(v) -> v.str
      [] IsNull(v) -> "None"
      [] IsNum(v) -> ToStr(v.num)

\* s.startswith(p)
StartsWith(s, p) == Len(s) >= Len(p) /\ SubSeq(s, 1, Len(p)) = p

\* s[:n]
Slice(s, n) == IF Len(s) <= n THEN s ELSE SubSeq(s, 1, n)

\* s.endswith(p)
EndsWith(s, p) == Len(s) >= Len(p) /\ SubSeq(s, Len(s) - Len(p) + 1, Len(s)) = p

Uppercase == "ABCDEFGHIJKLMNOPQRSTUVWXYZ"
Lowercase == "abcdefghijklmnopqrstuvwxyz"

\* c.lower() of one character
LowerChar(c) ==
    LET up == {i \in 1..Len(Uppercase) : SubSeq(Uppercase, i, i) = c}
    IN IF up = {} THEN c
       ELSE SubSeq(Lowercase, CHOOSE i \in up : TRUE, CHOOSE i \in up : TRUE)

RECURSIVE LowerFrom(_, _)
\* s[i:].lower(), with i counted from 1
LowerFrom(s, i) ==
    IF i > Len(s) THEN "" ELSE LowerChar(SubSeq(s, i, i)) \o LowerFrom(s, i + 1)

\* s.lower()
Lower(s) == LowerFrom(s, 1)

\* len(s.split('\n'))
SplitLines(s) == 1 + Cardinality({i \in 1..Len(s) : SubSeq(s, i, i) = "\n"})

(* An evaluation either returns a value or raises an exception with str(e) *)
Ret(v) == [val |-> v]
Raise(msg) == [exc |-> msg]
Raised(r) == "exc" \in DOMAIN r

NoAttribute(v, attr) ==
    Raise("'" \o TypeName(v) \o "' object has no attribute '" \o attr \o "'")

\* v.get(key, default)
Get(v, key, default) ==
    IF IsDict(v)
    THEN Ret(IF key \in DOMAIN v.dict THEN v.dict[key] ELSE default)
    ELSE NoAttribute(v, "get")

\* v[0]
Item0(v) ==
    CASE IsList(v) -> IF Len(v.list) > 0 THEN Ret(v.list[1])
                      ELSE Raise("list index out of range")
      [] IsStr(v) -> IF Len(v.str) > 0 THEN Ret(JStr(SubSeq(v.str, 1, 1)))
                     ELSE Raise("string index out of range")
      [] IsDict(v) -> Raise("0")
      [] OTHER -> Raise("'" \o TypeName(v) \o "' object is not subscriptable")

\* response.json()
Json(body) ==
    IF DOMAIN body = {"notjson"} THEN Raise("Expecting value: line 1 column 1 (char 0)")
    ELSE Ret(body)

----------------------------------------------------------------------------
(* The response parser *)

NoTranscript == JStr("No transcript generated")

\* The body of the try block of format_transcript_gemini
FormatTry(gemini_response) ==
    IF ~Truthy(gemini_response) THEN Ret(NoTranscript)
    ELSE IF IsNum(gemini_response) THEN Raise("object of type 'int' has no len()")
    ELSE
    LET first == Item0(gemini_response) IN
    IF Raised(first) THEN first ELSE
    LET content == Get(first.val, "content", JDict(EmptyDict)) IN
    IF Raised(content) THEN content ELSE
    LET content_parts == Get(content.val, "parts", JList(<<>>)) IN
    IF Raised(content_parts) THEN content_parts ELSE
    IF ~Truthy(content_parts.val) THEN Ret(NoTranscript) ELSE
    LET part == Item0(content_parts.val) IN
    IF Raised(part) THEN part ELSE
    LET text_content == Get(part.val, "text", JStr("")) IN
    IF Raised(text_content) THEN text_content ELSE
    IF ~Truthy(text_content.val) THEN Ret(NoTranscript)
    ELSE Ret(text_content.val)

format_transcript_gemini(gemini_response) ==
    LET r == FormatTry(gemini_response) IN
    IF Raised(r) THEN JStr("Error parsing transcript: " \o r.exc) ELSE r.val

----------------------------------------------------------------------------
(* One row of the loop: what the try block wrote and appended before it    *)
(* ended, and the exception that ended it, if any                          *)

DetailLimit == 50

Entry(status, details) == [status |-> status, details |-> details]

Completes(w, e) == [writes |-> w, entries |-> e, raised |-> "none", msg |-> ""]
Throws(w, kind, msg) == [writes |-> w, entries |-> <<>>, raised |-> kind, msg |-> msg]

\* The branch "if response.status_code != 200"
ErrorBranch(body) ==
    LET error_data == Json(body) IN
    IF Raised(error_data) THEN Throws(<<>>, "Exception", error_data.exc) ELSE
    LET error == Get(error_data.val, "error", JDict(EmptyDict)) IN
    IF Raised(error) THEN Throws(<<>>, "Exception", error.exc) ELSE
    LET error_msg == Get(error.val, "message", JStr("Unknown error")) IN
    IF Raised(error_msg) THEN Throws(<<>>, "Exception", error_msg.exc) ELSE
    LET written == <<JStr("ERROR: " \o PyStr(error_msg.val))>> IN
    IF IsStr(error_msg.val)
    THEN Completes(written, <<Entry("Failed", Slice(error_msg.val.str, DetailLimit))>>)
    ELSE Throws(written, "Exception",
                "'" \o TypeName(error_msg.val) \o "' object is not subscriptable")

\* The branch of a status 200 response
OkBranch(body) ==
    LET result == Json(body) IN
    IF Raised(result) THEN Throws(<<>>, "Exception", result.exc) ELSE
    LET candidates == Get(result.val, "candidates", JList(<<>>)) IN
    IF Raised(candidates) THEN Throws(<<>>, "Exception", candidates.exc) ELSE
    IF ~Truthy(candidates.val)
    THEN Completes(<<JStr("ERROR: No response from Gemini")>>,
                   <<Entry("Failed", "No response")>>)
    ELSE
    LET transcript == format_transcript_gemini(candidates.val) IN
    IF ~IsStr(transcript)
    THEN Throws(<<transcript>>, "Exception",
                "'" \o TypeName(transcript) \o "' object has no attribute 'startswith'")
    ELSE IF StartsWith(transcript.str, "ERROR") \/ transcript = NoTranscript
    THEN Completes(<<transcript>>,
                   <<Entry("No data", Slice(transcript.str, DetailLimit))>>)
    ELSE Completes(<<transcript>>,
                   <<Entry("Success", ToStr(SplitLines(transcript.str)) \o " segments")>>)

\* requests.get(audio_url, timeout=30) and raise_for_status()
TryGet(ev) ==
    CASE ev.kind = "ok" -> Completes(<<>>, <<>>)
      [] ev.kind = "timeout" -> Throws(<<>>, "Timeout", ev.msg)
      [] ev.kind = "error" -> Throws(<<>>, "Exception", ev.msg)

\* requests.post(..., timeout=120) and the handling of its response
TryPost(ev) ==
    CASE ev.kind = "timeout" -> Throws(<<>>, "Timeout", ev.msg)
      [] ev.kind = "error" -> Throws(<<>>, "Exception", ev.msg)
      [] ev.kind = "response" ->
            IF ev.status # 200 THEN ErrorBranch(ev.body) ELSE OkBranch(ev.body)

\* Mutant: the handler forgets the report entry
ExceptExceptionNoAppend(t) ==
    [writes |-> Append(t.writes, JStr("ERROR: " \o t.msg)),
     entries |-> t.entries]

\* Mutant: the handler writes the bare message
ExceptExceptionNoPrefix(t) ==
    [writes |-> Append(t.writes, JStr(t.msg)),
     entries |-> Append(t.entries, Entry("Failed", Slice(t.msg, DetailLimit)))]

\* Mutant: the report carries the whole message
ExceptExceptionWholeMessage(t) ==
    [writes |-> Append(t.writes, JStr("ERROR: " \o t.msg)),
     entries |-> Append(t.entries, Entry("Failed", t.msg))]

\* except Exception as e
ExceptException(t) ==
    [writes |-> Append(t.writes, JStr("ERROR: " \o t.msg)),
     entries |-> Append(t.entries, Entry("Failed", Slice(t.msg, DetailLimit)))]

\* Mutant: no clause of its own for a timeout
ExceptTimeoutAsException(t) == ExceptException(t)

\* except requests.exceptions.Timeout
ExceptTimeout(t) ==
    [writes |-> Append(t.writes, JStr("ERROR: Request timeout")),
     entries |-> Append(t.entries, Entry("Failed", "Timeout"))]

\* The try statement as a whole
TryExcept(t) ==
    CASE t.raised = "none" -> [writes |-> t.writes, entries |-> t.entries]
      [] t.raised = "Timeout" -> ExceptTimeout(t)
      [] t.raised = "Exception" -> ExceptException(t)

----------------------------------------------------------------------------
(* Inputs: the uploaded spreadsheet *)

Urls == {"https://cdn.example.com/rec/call-0001.mp3"}

\* Audio references the media type is tried with: file names with each
\* extension, in both cases, bare and followed by a query string
Extensions == {".mp3", ".wav", ".WAV", ".ogg", ".Ogg", ".flac", ".FLAC", ".m4a", ".xyz", ""}
Queries == {"", "?token=abc", "?src=old.wav"}
MimeUrls ==
    {"https://cdn.example.com/rec/call-0001" \o e \o q : e \in Extensions, q \in Queries}
    \cup {"https://cdn.example.com/v1.wav/call-0001", "https://cdn.example.com/rec/wav"}

Labels == {"9810000001", "9810000002"}
AllColumns == {"recording_url", "mobile_number", "transcript"}

\* One row of a sheet with the columns cols; a transcript column that is
\* already there holds an earlier transcript
MakeRow(cols, url, label) ==
    [c \in cols |-> CASE c = "recording_url" -> url
                      [] c = "mobile_number" -> label
                      [] c = "transcript" -> JStr("old transcript")]

RowsOf(cols) ==
    {MakeRow(cols, u, l) :
        u \in Urls, l \in IF "mobile_number" \in cols THEN Labels ELSE {"Unknown"}}

SeqsUpTo(S, n) == UNION {[1..k -> S] : k \in 0..n}

Sheets ==
    UNION {{[kind |-> "xlsx", columns |-> cols, rows |-> rows] :
                rows \in SeqsUpTo(RowsOf(cols), MaxRows)} :
           cols \in (SUBSET AllColumns) \ {{}}}

NoFile == [kind |-> "none", columns |-> {}, rows |-> <<>>]
Unreadable == [kind |-> "unreadable", columns |-> {}, rows |-> <<>>]

\* The data frame before a file is read
NoFrame == [columns |-> {}, rows |-> <<>>]

\* pd.read_excel(uploaded_file)
read_excel(file) ==
    IF file.kind = "xlsx" THEN Ret([columns |-> file.columns, rows |-> file.rows])
    ELSE Raise("File is not a zip file")

\* row.get("mobile_number", "Unknown")
RowGet(row, key, default) == IF key \in DOMAIN row THEN row[key] ELSE default

----------------------------------------------------------------------------
(* Inputs: what the network answers *)

Event(kind, msg, status, body) ==
    [kind |-> kind, msg |-> msg, status |-> status, body |-> body]

NoEvent == Event("none", "", 0, JNull)

\* Outcomes of requests.get followed by raise_for_status
GetEvents(url) ==
    {Event("ok", "", 200, JNull),
     Event("timeout", "Read timed out. (read timeout=30)", 0, JNull),
     Event("error", "404 Client Error: Not Found for url: " \o url, 404, JNull),
     Event("error", "Connection aborted.", 0, JNull)}

Parts(parts) == JDict([candidates |-> JList(<<JDict([content |-> JDict([parts |-> parts])])>>)])
Text(text) == Parts(JList(<<JDict([text |-> text])>>))
Error(error) == JDict([error |-> error])

\* Bodies a status 200 response is tried with
OkBodies ==
    {Text(JStr("Speaker 1 - \"Hello, how can I help?\" [0ms to 2500ms]")),
     Text(JStr("Speaker 1 - \"Hello\" [0ms to 900ms]\nSpeaker 2 - \"Hi\" [950ms to 1500ms]")),
     Text(JStr("ERROR tone, then Speaker 1 - \"Hello\" [0ms to 900ms]")),
     Text(JStr("")),
     Text(JNum(7)),
     Parts(JList(<<>>)),
     Parts(JList(<<JStr("Speaker 1")>>)),
     Parts(JList(<<JDict([inlineData |-> JStr("UklGRg==")])>>)),
     JDict([candidates |-> JList(<<JDict([finishReason |-> JStr("SAFETY")])>>)]),
     JDict([candidates |-> JList(<<>>)]),
     JDict(EmptyDict),
     JList(<<>>),
     NotJson}

\* Bodies a response with another status is tried with
ErrorBodies ==
    {Error(JDict([message |-> JStr("quota exceeded")])),
     Error(JDict([message |->
        JStr("Resource has been exhausted (e.g. check quota). Please retry in 41.5s.")])),
     Error(JDict([code |-> JNum(500)])),
     Error(JDict([message |-> JNull])),
     Error(JStr("Bad Gateway")),
     NotJson}

\* Outcomes of requests.post
PostEvents ==
    {Event("timeout", "Read timed out. (read timeout=120)", 0, JNull),
     Event("error", "Connection aborted.", 0, JNull)}
    \cup {Event("response", "", 200, b) : b \in OkBodies}
    \cup {Event("response", "", 429, b) : b \in ErrorBodies}

----------------------------------------------------------------------------
(* The "Process Recordings" handler *)

Init ==
    /\ api_key \in {"", "AIzaSy-key"}
    /\ uploaded_file \in {NoFile, Unreadable} \cup Sheets
    /\ pc = "button"
    /\ df = NoFrame
    /\ idx = -1
    /\ mobile = ""
    /\ results_data = <<>>
    /\ progress_bar = <<>>
    /\ status_container = <<"none">>
    /\ st_errors = <<>>
    /\ sample_idx = -1
    /\ http_log = <<>>
    /\ writes = <<>>
    /\ mime_type = ""
    /\ env = <<>>

\* df["transcript"] = "" when the column is not there
AddTranscriptColumn(frame) ==
    IF "transcript" \in frame.columns THEN frame
    ELSE [columns |-> frame.columns \cup {"transcript"},
          rows |-> [k \in 1..Len(frame.rows) |->
                      [c \in frame.columns \cup {"transcript"} |->
                          IF c = "transcript" THEN JStr("") ELSE frame.rows[k][c]]]]

Rejected(message, frame) == [error |-> message, frame |-> frame]

\* Mutant: the key is not checked
PreconditionsNoKeyCheck(key, file) ==
    IF file.kind = "none"
    THEN Rejected("Please upload an Excel file", NoFrame)
    ELSE LET read == read_excel(file) IN
         IF Raised(read)
         THEN Rejected("Error: " \o read.exc, NoFrame)
         ELSE IF "recording_url" \notin read.val.columns
         THEN Rejected("Excel file must contain 'recording_url' column", read.val)
         ELSE [error |-> "", frame |-> read.val]

\* Mutant: a sheet without rows is turned away
PreconditionsRejectEmpty(key, file) ==
    IF key = ""
    THEN Rejected("Please enter your Gemini API key in the sidebar", NoFrame)
    ELSE IF file.kind = "none"
    THEN Rejected("Please upload an Excel file", NoFrame)
    ELSE LET read == read_excel(file) IN
         IF Raised(read)
         THEN Rejected("Error: " \o read.exc, NoFrame)
         ELSE IF "recording_url" \notin read.val.columns
         THEN Rejected("Excel file must contain 'recording_url' column", read.val)
         ELSE IF read.val.rows = <<>>
         THEN Rejected("Excel file contains no rows", read.val)
         ELSE [error |-> "", frame |-> read.val]

\* The checks between the button and the loop: the st.error message of the
\* first check that fails, "" when the loop is entered
Preconditions(key, file) ==
    IF key = ""
    THEN Rejected("Please enter your Gemini API key in the sidebar", NoFrame)
    ELSE IF file.kind = "none"
    THEN Rejected("Please upload an Excel file", NoFrame)
    ELSE LET read == read_excel(file) IN
         IF Raised(read)
         THEN Rejected("Error: " \o read.exc, NoFrame)
         ELSE IF "recording_url" \notin read.val.columns
         THEN Rejected("Excel file must contain 'recording_url' column", read.val)
         ELSE [error |-> "", frame |-> read.val]

\* The button is pressed: the checks before the loop, and the loop's set-up
Click ==
    /\ pc = "button"
    /\ UNCHANGED <<api_key, uploaded_file>>
    /\ LET checked == Preconditions(api_key, uploaded_file) IN
       IF checked.error # ""
       THEN /\ st_errors' = Append(st_errors, checked.error)
            /\ df' = checked.frame
            /\ pc' = "stopped"
            /\ UNCHANGED <<idx, mobile, results_data, progress_bar, status_container,
                           sample_idx, http_log, writes, mime_type, env>>
       ELSE /\ df' = AddTranscriptColumn(checked.frame)
            /\ progress_bar' = <<<<0, 1>>>>
            /\ status_container' = <<"empty">>
            /\ results_data' = <<>>
            /\ writes' = [k \in 1..Len(checked.frame.rows) |-> <<>>]
            /\ env' = [k \in 1..Len(checked.frame.rows) |->
                         [get |-> NoEvent, post |-> NoEvent]]
            /\ pc' = "for"
            /\ UNCHANGED <<idx, mobile, st_errors, sample_idx, http_log, mime_type>>

\* Mutant: the assignment fills the whole column
SetTranscriptColumn(frame, i, value) ==
    [frame EXCEPT !.rows = [k \in 1..Len(frame.rows) |->
                               [frame.rows[k] EXCEPT !["transcript"] = value]]]

\* df.at[i, "transcript"] = value
SetTranscript(frame, i, value) ==
    [frame EXCEPT !.rows[i + 1]["transcript"] = value]

RECURSIVE ApplyWrites(_, _, _)
\* The assignments to df.at[i, "transcript"] of one row, in order
ApplyWrites(frame, i, values) ==
    IF values = <<>> THEN frame
    ELSE ApplyWrites(SetTranscript(frame, i, Head(values)), i, Tail(values))

\* results_data.append({"mobile": mobile, "status": ..., "details": ...})
Report(label, entries) ==
    [k \in 1..Len(entries) |->
        [mobile |-> label, status |-> entries[k].status, details |-> entries[k].details]]

\* Mutant: a row that failed ends the run
FinishRowAbort(r) ==
    /\ df' = ApplyWrites(df, idx, r.writes)
    /\ writes' = [writes EXCEPT ![idx + 1] = @ \o r.writes]
    /\ results_data' = results_data \o Report(mobile, r.entries)
    /\ pc' = IF \E k \in 1..Len(r.entries) : r.entries[k].status = "Failed"
             THEN "stopped" ELSE "for"

\* Mutant: the entry of a row goes in front of the report
FinishRowInFront(r) ==
    /\ df' = ApplyWrites(df, idx, r.writes)
    /\ writes' = [writes EXCEPT ![idx + 1] = @ \o r.writes]
    /\ results_data' = Report(mobile, r.entries) \o results_data
    /\ pc' = "for"

\* Mutant: a row that failed is fetched again
FinishRowRetry(r) ==
    IF \E k \in 1..Len(r.entries) : r.entries[k].status = "Failed"
    THEN /\ pc' = "get"
         /\ UNCHANGED <<df, writes, results_data>>
    ELSE /\ df' = ApplyWrites(df, idx, r.writes)
         /\ writes' = [writes EXCEPT ![idx + 1] = @ \o r.writes]
         /\ results_data' = results_data \o Report(mobile, r.entries)
         /\ pc' = "for"

\* The end of one iteration: the effects of the try statement on the row idx
FinishRow(r) ==
    /\ df' = ApplyWrites(df, idx, r.writes)
    /\ writes' = [writes EXCEPT ![idx + 1] = @ \o r.writes]
    /\ results_data' = results_data \o Report(mobile, r.entries)
    /\ pc' = "for"

\* Mutant: the count of rows done, not the row in hand
CurrentDone(i) == i

\* current = idx + 1
Current(i) == i + 1

\* for idx, row in df.iterrows(): the next row, the progress bar, the label
LoopHead ==
    /\ pc = "for"
    /\ idx + 1 < Len(df.rows)
    /\ LET current == Current(idx + 1)
           total == Len(df.rows)
           row == df.rows[idx + 2]
           label == RowGet(row, "mobile_number", "Unknown")
       IN /\ idx' = idx + 1
          /\ progress_bar' = Append(progress_bar, <<current, total>>)
          /\ mobile' = label
          /\ status_container' = <<"info", current, total, label>>
    /\ pc' = "get"
    /\ UNCHANGED <<api_key, uploaded_file, df, results_data, st_errors, sample_idx,
                   http_log, writes, mime_type, env>>

\* Determine MIME type based on file extension
MimeType(audio_url) ==
    IF EndsWith(Lower(audio_url), ".wav") THEN "audio/wav"
    ELSE IF EndsWith(Lower(audio_url), ".ogg") THEN "audio/ogg"
    ELSE IF EndsWith(Lower(audio_url), ".flac") THEN "audio/flac"
    ELSE IF EndsWith(Lower(audio_url), ".m4a") THEN "audio/mp4"
    ELSE "audio/mpeg"

\* The media type of every audio reference of the sheets, worked out once
MimeTypes == [u \in Urls \cup MimeUrls |-> MimeType(u)]

\* Download audio: requests.get and raise_for_status, and the except clauses
\* when either raises
Fetch ==
    /\ pc = "get"
    /\ \E ev \in GetEvents(df.rows[idx + 1]["recording_url"]) :
          /\ http_log' = Append(http_log, <<"get", idx>>)
          /\ env' = [env EXCEPT ![idx + 1].get = ev]
          /\ LET t == TryGet(ev) IN
             IF t.raised = "none"
             THEN /\ mime_type' = MimeTypes[df.rows[idx + 1]["recording_url"]]
                  /\ pc' = "post"
                  /\ UNCHANGED <<df, writes, results_data>>
             ELSE /\ FinishRow(TryExcept(t))
                  /\ UNCHANGED mime_type
    /\ UNCHANGED <<api_key, uploaded_file, idx, mobile, progress_bar, status_container,
                   st_errors, sample_idx>>

\* Call Gemini: requests.post, the handling of the response, and the except
\* clauses when any of it raises
Post ==
    /\ pc = "post"
    /\ \E ev \in PostEvents :
          /\ http_log' = Append(http_log, <<"post", idx>>)
          /\ env' = [env EXCEPT ![idx + 1].post = ev]
          /\ FinishRow(TryExcept(TryPost(ev)))
    /\ UNCHANGED <<api_key, uploaded_file, idx, mobile, progress_bar, status_container,
                   st_errors, sample_idx, mime_type>>

\* Mutant: the lookup takes the placeholder of an empty result as well
QualifiesPlaceholder(cell) ==
    IsStr(cell) /\ ~StartsWith(cell.str, "ERROR")

\* The test of the sample lookup
Qualifies(cell) ==
    IsStr(cell) /\ ~StartsWith(cell.str, "ERROR") /\ cell # NoTranscript

\* The sample lookup: the first row that qualifies, -1 for None
SampleLookup(frame) ==
    LET found == {i \in 0..(Len(frame.rows) - 1) : Qualifies(frame.rows[i + 1]["transcript"])}
    IN IF found = {} THEN -1 ELSE CHOOSE i \in found : \A j \in found : i <= j

\* After the loop: the progress bar is filled, the success message, the sample
AfterLoop ==
    /\ pc = "for"
    /\ ~(idx + 1 < Len(df.rows))
    /\ progress_bar' = Append(progress_bar, <<1, 1>>)
    /\ status_container' = <<"success">>
    /\ sample_idx' = SampleLookup(df)
    /\ idx' = IF SampleLookup(df) # -1 THEN SampleLookup(df)
              ELSE Len(df.rows) - 1
    /\ pc' = "done"
    /\ UNCHANGED <<api_key, uploaded_file, df, mobile, results_data, st_errors,
                   http_log, writes, mime_type, env>>

Next == Click \/ LoopHead \/ Fetch \/ Post \/ AfterLoop

Spec == Init /\ [][Next]_vars

\* The labels take no part in the control flow: the fair specification draws
\* sheets whose rows all carry the same cells
FairInit ==
    /\ Init
    /\ \A k \in 1..Len(uploaded_file.rows) : uploaded_file.rows[k] = uploaded_file.rows[1]

\* The loop is one blocking thread of control, and both network calls carry
\* a timeout: once the button is pressed every step of the handler is taken
FairSpec ==
    FairInit /\ [][Next]_vars /\ WF_vars(LoopHead \/ Fetch \/ Post \/ AfterLoop)

\* One row with each audio reference, the key entered
MimeInit ==
    /\ api_key = "AIzaSy-key"
    /\ uploaded_file \in {[kind |-> "xlsx", columns |-> {"recording_url"},
                            rows |-> <<MakeRow({"recording_url"}, u, "Unknown")>>] :
                             u \in MimeUrls}
    /\ pc = "button"
    /\ df = NoFrame
    /\ idx = -1
    /\ mobile = ""
    /\ results_data = <<>>
    /\ progress_bar = <<>>
    /\ status_container = <<"none">>
    /\ st_errors = <<>>
    /\ sample_idx = -1
    /\ http_log = <<>>
    /\ writes = <<>>
    /\ mime_type = ""
    /\ env = <<>>

MimeSpec == MimeInit /\ [][Next]_vars

----------------------------------------------------------------------------
(* Vocabulary of the specification, read off the inputs and the network's  *)
(* answers alone                                                           *)

Running == pc \in {"for", "get", "post"}
Completed == pc = "done"
NumRows == Len(df.rows)
RowIds == 1..NumRows

\* The label of the k-th row of the uploaded sheet
InputLabel(k) ==
    IF "mobile_number" \in DOMAIN uploaded_file.rows[k]
    THEN uploaded_file.rows[k]["mobile_number"] ELSE "Unknown"

Transcript(k) == df.rows[k]["transcript"]

Field(v, key) == IF IsDict(v) /\ key \in DOMAIN v.dict THEN v.dict[key] ELSE JNull
FirstOf(v) == IF IsList(v) /\ Len(v.list) > 0 THEN v.list[1] ELSE JNull

\* The text of the first part of the first candidate, "" when there is none
FirstPartText(body) ==
    LET text == Field(FirstOf(Field(Field(FirstOf(Field(body, "candidates")),
                                          "content"), "parts")), "text")
    IN IF IsStr(text) THEN text.str ELSE ""

TimedOut(k) == env[k].get.kind = "timeout" \/ env[k].post.kind = "timeout"
TransportFailed(k) == env[k].get.kind = "error" \/ env[k].post.kind = "error"
Answered(k) == env[k].post.kind = "response"
RemoteFailed(k) == Answered(k) /\ env[k].post.status # 200
Succeeded(k) ==
    Answered(k) /\ env[k].post.status = 200 /\ FirstPartText(env[k].post.body) # ""

\* What the try statement yields for the answers row k got, taken on their own
Alone(k) ==
    IF env[k].get.kind # "ok" THEN TryExcept(TryGet(env[k].get))
    ELSE TryExcept(TryPost(env[k].post))

\* error.message of a structured error body, "Unknown error" when there is none
ErrorMessage(body) ==
    LET message == Field(Field(body, "error"), "message")
    IN IF IsStr(message) THEN message.str ELSE "Unknown error"

----------------------------------------------------------------------------
(* C1: once the run is Running it reaches Completed with every row         *)
(* processed (a transcript written and a report entry appended for each),  *)
(* whatever failed in the rows.                                            *)
C1_RunCompletes ==
    Running ~> (Completed /\ Len(results_data) = NumRows
                          /\ \A k \in RowIds : writes[k] # <<>>)

\* A completed run whose first row failed and whose second row was processed
C1_Witness ==
    /\ Completed
    /\ NumRows = 2
    /\ TimedOut(1)
    /\ Succeeded(2)
    /\ Len(results_data) = 2

(* C2: over one completed run the transcript of every row is written        *)
(* exactly once and is not empty afterwards.                               *)
C2_WrittenExactlyOnce ==
    Completed =>
        \A k \in RowIds : Len(writes[k]) = 1 /\ Transcript(k) # JStr("")

(* C3: after a run the report has one entry per row and the k-th entry      *)
(* carries the label of the k-th input row.                                *)
C3_ReportMatchesRows ==
    Completed =>
        /\ Len(results_data) = Len(uploaded_file.rows)
        /\ \A k \in 1..Len(results_data) : results_data[k].mobile = InputLabel(k)

\* A completed run of two rows with different labels, one failed, one not
C3_Witness ==
    /\ Completed
    /\ NumRows = 2
    /\ InputLabel(1) # InputLabel(2)
    /\ TransportFailed(1)
    /\ Succeeded(2)
    /\ results_data[2].status = "Success"

(* C4: after a run every transcript is the real transcript text or a string *)
(* that begins with "ERROR: ", the latter for every outcome but Success.   *)
C4_TranscriptOrErrorPrefix ==
    Completed =>
        \A k \in RowIds :
            /\ IsStr(Transcript(k))
            /\ IF Succeeded(k)
               THEN \/ Transcript(k).str = FirstPartText(env[k].post.body)
                    \/ StartsWith(Transcript(k).str, "ERROR: ")
               ELSE StartsWith(Transcript(k).str, "ERROR: ")

(* C4, amended: after a run every transcript is a string: the first-part    *)
(* text verbatim when there is one; a string that begins with "ERROR: "    *)
(* after a timeout, a transport error, a status other than 200 or a body   *)
(* without candidates; and for any other status 200 body either            *)
(* "No transcript generated", a string that begins with                    *)
(* "Error parsing transcript: ", or a string that begins with "ERROR: ".   *)
C4_TranscriptForms ==
    Completed =>
        \A k \in RowIds :
            /\ IsStr(Transcript(k))
            /\ IF Succeeded(k)
               THEN Transcript(k).str = FirstPartText(env[k].post.body)
               ELSE IF \/ TimedOut(k) \/ TransportFailed(k) \/ RemoteFailed(k)
                       \/ ~Truthy(Field(env[k].post.body, "candidates"))
               THEN StartsWith(Transcript(k).str, "ERROR: ")
               ELSE \/ Transcript(k).str = "No transcript generated"
                    \/ StartsWith(Transcript(k).str, "Error parsing transcript: ")
                    \/ StartsWith(Transcript(k).str, "ERROR: ")

\* A completed run with a row left "No transcript generated", and a row left with
\* the parser's own message
C4_Witness ==
    /\ Completed
    /\ NumRows = 2
    /\ Transcript(1) = JStr("No transcript generated")
    /\ IsStr(Transcript(2))
    /\ StartsWith(Transcript(2).str, "Error parsing transcript: ")

(* C5: a row whose fetch or remote call times out is left with exactly      *)
(* "ERROR: Request timeout" and a "Failed" entry; every other row ends as   *)
(* its own answers alone decide, and the run completes with all rows.      *)
C5_TimeoutIsRowScoped ==
    Completed =>
        /\ Len(results_data) = NumRows
        /\ \A k \in RowIds :
              IF TimedOut(k)
              THEN /\ Transcript(k) = JStr("ERROR: Request timeout")
                   /\ results_data[k].status = "Failed"
              ELSE /\ Transcript(k) = Alone(k).writes[Len(Alone(k).writes)]
                   /\ results_data[k] = Report(InputLabel(k), Alone(k).entries)[1]

\* A completed run whose second row timed out in the remote call after the
\* first row succeeded
C5_Witness ==
    /\ Completed
    /\ NumRows = 2
    /\ Succeeded(1)
    /\ results_data[1].status = "Success"
    /\ env[2].post.kind = "timeout"

(* C6: a row whose remote call returns a status other than 200 is left with *)
(* "ERROR: <message>", the message being error.message of the body or       *)
(* "Unknown error" when there is none, and with a "Failed" entry.          *)
C6_RemoteErrorMessage ==
    Completed =>
        \A k \in RowIds :
            RemoteFailed(k) =>
                /\ Transcript(k) = JStr("ERROR: " \o ErrorMessage(env[k].post.body))
                /\ results_data[k].status = "Failed"

(* C7: the sample lookup returns the lowest row whose outcome is Success,   *)
(* and none exactly when no row succeeded.                                 *)
C7_FirstSuccess ==
    Completed =>
        LET succeeded == {k \in RowIds : Succeeded(k)}
        IN IF succeeded = {} THEN sample_idx = -1
           ELSE /\ sample_idx + 1 \in succeeded
                /\ \A k \in succeeded : sample_idx + 1 <= k

(* C8: without a credential token the run never becomes Running: no network *)
(* call, no transcript written, no report entry, and exactly one            *)
(* precondition failure reported once the button was pressed.              *)
C8_NoCredentialNoRun ==
    api_key = "" =>
        /\ ~Running /\ ~Completed
        /\ http_log = <<>>
        /\ writes = <<>>
        /\ df = NoFrame
        /\ results_data = <<>>
        /\ progress_bar = <<>>
        /\ Len(st_errors) = IF pc = "button" THEN 0 ELSE 1

\* The button was pressed without a key, on a sheet that has rows to process
C8_Witness ==
    /\ api_key = ""
    /\ pc = "stopped"
    /\ "recording_url" \in uploaded_file.columns
    /\ Len(uploaded_file.rows) = 2

\* A sheet that has the recording_url column, read with a key entered
ValidStart ==
    /\ api_key # ""
    /\ uploaded_file.kind = "xlsx"
    /\ "recording_url" \in uploaded_file.columns

(* C9: with an empty row set the run becomes neither Running nor Completed: *)
(* a precondition failure is reported before the loop.                     *)
C9_EmptyIsPreconditionFailure ==
    (ValidStart /\ uploaded_file.rows = <<>> /\ pc # "button") =>
        /\ ~Running /\ ~Completed
        /\ Len(st_errors) = 1

(* C9, amended: with an empty row set (key entered, recording_url column    *)
(* there) no precondition failure is reported: the loop is entered, runs   *)
(* zero iterations, and the run completes with an empty report and no      *)
(* network call.                                                           *)
C9_EmptyRunCompletes ==
    (ValidStart /\ uploaded_file.rows = <<>> /\ pc # "button") =>
        /\ st_errors = <<>>
        /\ pc \in {"for", "done"}
        /\ pc = "for" => ENABLED AfterLoop
        /\ results_data = <<>>
        /\ http_log = <<>>
        /\ Completed => progress_bar = <<<<0, 1>>, <<1, 1>>>> /\ sample_idx = -1

\* The run over a sheet without rows has completed
C9_Witness ==
    /\ ValidStart
    /\ uploaded_file.rows = <<>>
    /\ Completed
    /\ status_container = <<"success">>

(* C10: the status of each report entry follows the outcome of its row:     *)
(* Success gives "Success"; a status 200 answer without a first-part text  *)
(* (EmptyResult) gives "No data"; a timeout, a transport error or another   *)
(* status gives "Failed"; and no detail string is longer than 50.          *)
C10_StatusByOutcome ==
    Completed =>
        \A k \in 1..Len(results_data) :
            /\ results_data[k].status =
                  IF Succeeded(k) THEN "Success"
                  ELSE IF TimedOut(k) \/ TransportFailed(k) \/ RemoteFailed(k) THEN "Failed"
                  ELSE "No data"
            /\ Len(results_data[k].details) <= 50

(* C11: parsing a status 200 body never raises past the parser: whatever    *)
(* the shape of a body without a first-part text (no candidates, a         *)
(* candidate without content, parts or a first part of another type, a     *)
(* first part without text, a body that is not a mapping), the row is      *)
(* EmptyResult: reported "No data", never "Success" and never "Failed",    *)
(* and no except clause of the loop runs for it.                           *)
C11_AnomalyIsEmptyResult ==
    Completed =>
        \A k \in RowIds :
            (Answered(k) /\ env[k].post.status = 200 /\ ~Succeeded(k)) =>
                /\ results_data[k].status = "No data"
                /\ Len(writes[k]) = 1

\* The rows whose iteration has begun
Started == IF pc \in {"get", "post"} THEN Len(results_data) + 1 ELSE Len(results_data)

\* The values the progress bar got for the rows, between its first 0 and the
\* last 1.0
RowEvents ==
    SubSeq(progress_bar, 2, IF Completed THEN Len(progress_bar) - 1 ELSE Len(progress_bar))

(* C12: the progress events of a run over n rows are (1,n), (2,n), ...,     *)
(* (n,n) in this order, and (k,n) is emitted only after row k is finished   *)
(* and its report entry appended.                                          *)
C12_ProgressAfterRow ==
    (Running \/ Completed) =>
        /\ Len(RowEvents) <= Len(results_data)
        /\ \A j \in 1..Len(RowEvents) : RowEvents[j] = <<j, NumRows>>
        /\ Completed => Len(RowEvents) = NumRows

(* C12, amended: the progress events of a run over n rows are (1,n), ...,   *)
(* (n,n) in this order, between the bar's first 0 and last 1.0; (k,n) is    *)
(* emitted at the head of row k's iteration, after the rows before it are   *)
(* finished and reported and while row k itself is not yet processed; the   *)
(* message shown carries the same pair and the label of row k.             *)
C12_ProgressAtRowStart ==
    (Running \/ Completed) =>
        /\ progress_bar[1] = <<0, 1>>
        /\ Len(RowEvents) = Started
        /\ \A j \in 1..Len(RowEvents) : RowEvents[j] = <<j, NumRows>>
        /\ Completed => Len(RowEvents) = NumRows /\ progress_bar[Len(progress_bar)] = <<1, 1>>
        /\ pc \in {"get", "post"} =>
              /\ writes[Started] = <<>>
              /\ Len(results_data) = Started - 1
              /\ status_container = <<"info", Started, NumRows, InputLabel(Started)>>

\* The event (2,2) is out while the second row is not yet fetched
C12_Witness ==
    /\ pc = "get"
    /\ NumRows = 2
    /\ progress_bar = <<<<0, 1>>, <<1, 2>>, <<2, 2>>>>
    /\ Len(results_data) = 1
    /\ writes[2] = <<>>

(* C13: processing row i changes only the transcript of row i: the frame   *)
(* keeps its rows, in their order, and its columns, every cell of another   *)
(* column keeps its value, and the transcripts of the other rows are not    *)
(* touched by the step of row i.                                           *)
C13_OnlyOwnTranscript ==
    [][Running =>
          /\ df'.columns = df.columns
          /\ Len(df'.rows) = Len(df.rows)
          /\ \A k \in RowIds :
                /\ DOMAIN df'.rows[k] = DOMAIN df.rows[k]
                /\ \A c \in DOMAIN df.rows[k] :
                      (df'.rows[k][c] # df.rows[k][c]) =>
                          /\ c = "transcript"
                          /\ pc \in {"get", "post"}
                          /\ k = idx + 1]_vars

\* The first of two rows is processed: its transcript is new, and the second
\* row still is the row of the sheet
C13_Witness ==
    /\ pc = "for"
    /\ NumRows = 2
    /\ Len(results_data) = 1
    /\ writes[1] # <<>>
    /\ Transcript(1) = writes[1][Len(writes[1])]
    /\ df.rows[2] = AddTranscriptColumn(read_excel(uploaded_file).val).rows[2]
    /\ \A c \in DOMAIN uploaded_file.rows[1] \ {"transcript"} :
          df.rows[1][c] = uploaded_file.rows[1][c]

\* The position of the last occurrence of the character c in s, 0 for none
LastIndex(s, c) ==
    LET at == {i \in 1..Len(s) : SubSeq(s, i, i) = c}
    IN IF at = {} THEN 0 ELSE CHOOSE i \in at : \A j \in at : j <= i

\* The reference up to its query string
PathOf(url) ==
    LET at == {i \in 1..Len(url) : SubSeq(url, i, i) = "?"}
    IN IF at = {} THEN url
       ELSE SubSeq(url, 1, (CHOOSE i \in at : \A j \in at : i <= j) - 1)

\* The extension of the file name the path ends with, "" when it has none
PathExtension(url) ==
    LET path == PathOf(url)
        name == SubSeq(path, LastIndex(path, "/") + 1, Len(path))
    IN IF LastIndex(name, ".") = 0 THEN ""
       ELSE SubSeq(name, LastIndex(name, ".") + 1, Len(name))

\* The media type the path extension stands for
TypeOfExtension(ext) ==
    CASE Lower(ext) = "wav" -> "audio/wav"
      [] Lower(ext) = "ogg" -> "audio/ogg"
      [] Lower(ext) = "flac" -> "audio/flac"
      [] Lower(ext) = "m4a" -> "audio/mp4"
      [] OTHER -> "audio/mpeg"

(* C14: the media type sent with the audio is a function of the trailing    *)
(* path extension of the reference alone, compared without regard to case:  *)
(* wav, ogg, flac and m4a have their own type, every other or no extension  *)
(* the mpeg type, and a query string after the file name changes nothing.  *)
C14_TypeByPathExtension ==
    pc = "post" =>
        mime_type = TypeOfExtension(PathExtension(df.rows[idx + 1]["recording_url"]))

(* C15: the rows are processed in the order of the sheet, one at a time: a  *)
(* network call for a row is issued only when every row before it has its   *)
(* transcript written and its entry in the report and the row itself has    *)
(* neither, a step issues at most one call, and the entries are appended to *)
(* the report in the order of the rows.                                    *)
C15_OneRowAtATime ==
    [][/\ (http_log' # http_log) =>
              /\ Len(http_log') = Len(http_log) + 1
              /\ SubSeq(http_log', 1, Len(http_log)) = http_log
              /\ LET call == http_log'[Len(http_log')] IN
                    /\ call[2] = Len(results_data)
                    /\ \A k \in 1..call[2] : writes[k] # <<>>
                    /\ \A k \in (call[2] + 1)..NumRows : writes[k] = <<>>
                    /\ \A a \in 1..Len(http_log) :
                          \/ http_log[a][2] < call[2]
                          \/ http_log[a][2] = call[2] /\ http_log[a][1] = "get"
                                                     /\ call[1] = "post"
       /\ (Running /\ results_data' # results_data) =>
              /\ Len(results_data') = Len(results_data) + 1
              /\ SubSeq(results_data', 1, Len(results_data)) = results_data
              /\ results_data'[Len(results_data')].mobile = InputLabel(Len(results_data'))
              /\ writes'[Len(results_data')] # <<>>]_vars

\* A completed run of two rows with different labels, each fetched and sent
C15_Witness ==
    /\ Completed
    /\ NumRows = 2
    /\ http_log = <<<<"get", 0>>, <<"post", 0>>, <<"get", 1>>, <<"post", 1>>>>
    /\ results_data[1].mobile = InputLabel(1)
    /\ results_data[2].mobile = InputLabel(2)
    /\ InputLabel(1) # InputLabel(2)

(* C16: no retries: in one run the audio of a row is fetched at most once   *)
(* and the remote endpoint is called at most once for it, whatever the      *)
(* outcome of either call.                                                 *)
C16_NoRetry ==
    \A a, b \in 1..Len(http_log) : http_log[a] = http_log[b] => a = b

\* A completed run whose first fetch timed out and whose second row was
\* refused by the remote endpoint: three calls in all
C16_Witness ==
    /\ Completed
    /\ NumRows = 2
    /\ env[1].get.kind = "timeout"
    /\ RemoteFailed(2)
    /\ results_data[1].status = "Failed"
    /\ results_data[2].status = "Failed"
    /\ http_log = <<<<"get", 0>>, <<"get", 1>>, <<"post", 1>>>>

(* C17: when the fetch of a row fails with an error status or a network     *)
(* failure the remote call is not issued for the row, its transcript is     *)
(* "ERROR: " followed by the failure message, and its entry is "Failed"     *)
(* with the first 50 characters of the message.                            *)
C17_FetchFailure ==
    \A k \in 1..Len(results_data) :
        env[k].get.kind = "error" =>
            /\ \A a \in 1..Len(http_log) : http_log[a] # <<"post", k - 1>>
            /\ env[k].post = NoEvent
            /\ writes[k] = <<JStr("ERROR: " \o env[k].get.msg)>>
            /\ Transcript(k) = JStr("ERROR: " \o env[k].get.msg)
            /\ results_data[k].status = "Failed"
            /\ results_data[k].details =
                  IF Len(env[k].get.msg) <= 50 THEN env[k].get.msg
                  ELSE SubSeq(env[k].get.msg, 1, 50)

\* The fetch of the first row was answered 404, with a message of more than
\* 50 characters, and the second row went through
C17_Witness ==
    /\ Completed
    /\ NumRows = 2
    /\ env[1].get.kind = "error"
    /\ env[1].get.status = 404
    /\ Len(env[1].get.msg) > 50
    /\ Len(results_data[1].details) = 50
    /\ Succeeded(2)

(* C18: when the first part of the first candidate carries text that is not *)
(* empty the row is reported "Success", its transcript is this very text,   *)
(* and the number of segments reported is 1 plus the number of newline      *)
(* characters of the text.                                                 *)
C18_TextIsSuccess ==
    Completed =>
        \A k \in RowIds :
            Succeeded(k) =>
                LET text == FirstPartText(env[k].post.body) IN
                /\ Transcript(k) = JStr(text)
                /\ results_data[k].status = "Success"
                /\ results_data[k].details =
                      ToStr(1 + Cardinality({i \in 1..Len(text) : SubSeq(text, i, i) = "\n"}))
                      \o " segments"

\* The rows reported "Success"
Successes == {k \in 1..Len(results_data) : results_data[k].status = "Success"}

(* C19: after a completed run the k-th entry of the report is "Success"     *)
(* exactly when the transcript of row k is a string that does not start     *)
(* with "ERROR" and is not "No transcript generated"; the sample is the     *)
(* transcript of the first row reported "Success", and there is no sample   *)
(* exactly when no row is reported "Success".                              *)
C19_ReportAgreesWithSample ==
    Completed =>
        /\ Len(results_data) = NumRows
        /\ \A k \in RowIds :
              (results_data[k].status = "Success") <=>
                  /\ IsStr(Transcript(k))
                  /\ ~(Len(Transcript(k).str) >= 5 /\ SubSeq(Transcript(k).str, 1, 5) = "ERROR")
                  /\ Transcript(k).str # "No transcript generated"
        /\ (sample_idx = -1) <=> (Successes = {})
        /\ Successes # {} =>
              /\ sample_idx + 1 \in Successes
              /\ \A k \in Successes : sample_idx + 1 <= k

\* The first row got an empty result, the second a transcript: the sample is
\* the second row's
C19_Witness ==
    /\ Completed
    /\ NumRows = 2
    /\ Transcript(1) = NoTranscript
    /\ results_data[1].status = "No data"
    /\ results_data[2].status = "Success"
    /\ sample_idx = 1

====
